---- MODULE Spec2Model ----
(***************************************************************************)
(* Growatt solar modbus sensor platform                                    *)
(* (custom_components/growatt_solar_modbus/sensor.py).                     *)
(*                                                                         *)
(* The model covers async_setup_platform, GrowattClientDataProbe (with the *)
(* Throttle decorator applied to its update coroutine) and                 *)
(* GrowattClientSensor, driven by a host that refreshes the registered     *)
(* sensors in any interleaving while a clock advances in whole seconds.    *)
(* The GrowattClient is an external collaborator: its answers (identity,   *)
(* attribute catalog, readings, failures) are nondeterministic inputs.     *)
(***************************************************************************)
EXTENDS Integers, Sequences, FiniteSets, TLC

VARIABLES
    pc,         \* position of async_setup_platform: start / await_hw / loaded / failed
    hwInfo,     \* how client.update_hardware_info() ended: unknown / ok / error
    cfgName,    \* config[CONF_NAME]
    hwSerial,   \* the serial number the device reports (client.get_serial_number())
    catalog,    \* client.get_attributes(): sequence of [name, description, unit]
    probes,     \* number of GrowattClientDataProbe objects constructed
    entities,   \* the sensors handed to async_add_entities, in order
    data,       \* probe.data
    throttle,   \* probe._throttle[..][1]: <<>> for None, <<t>> for a timestamp
    now,        \* utcnow(), in seconds
    task,       \* per entity: "idle", or "awaiting" inside client.async_update()
    result,     \* per entity: how its last async_update() ended
    callTimes,  \* history: the instants at which client.async_update() was called
    opener,     \* history: the entity whose invocation set the current throttle stamp
    winOutcome, \* history: how the fetch of that invocation ended
    fetched,    \* history: some fetch has succeeded
    lastGood,   \* history: the mapping returned by the latest successful fetch
    everSeen    \* history: the attribute names some successful fetch has returned

vars == <<pc, hwInfo, cfgName, hwSerial, catalog, probes, entities, data, throttle,
          now, task, result, callTimes, opener, winOutcome, fetched, lastGood,
          everSeen>>

(***************************************************************************)
(* Bounds of the model.                                                    *)
(***************************************************************************)
MaxTime == 36
MaxSensors == 2
MaxCatalog == 2

(***************************************************************************)
(* Program constants and values.                                           *)
(***************************************************************************)
SCAN_INTERVAL == 30

None == "None"
TOTAL_INCREASING == "total_increasing"
MEASUREMENT == "measurement"

(***************************************************************************)
(* str.endswith                                                            *)
(***************************************************************************)
endswith(s, suffix) ==
    /\ Len(s) >= Len(suffix)
    /\ SubSeq(s, Len(s) - Len(suffix) + 1, Len(s)) = suffix

Contains(s, sub) ==
    \E i \in 1..(Len(s) - Len(sub) + 1) : SubSeq(s, i, i + Len(sub) - 1) = sub

sensor_state_class_contains(attr) ==
    IF Contains(attr.name, "lifetime") \/ Contains(attr.name, "today")
    THEN TOTAL_INCREASING
    ELSE None

sensor_state_class(attr) ==
    IF endswith(attr.name, "lifetime") \/ endswith(attr.name, "today")
    THEN TOTAL_INCREASING
    ELSE None

sensor_device_class(attr) ==
    CASE attr.unit = "kWh" -> "energy"
      [] attr.unit = "kW"  -> "power"
      [] attr.unit = "V"   -> "voltage"
      [] attr.unit = "A"   -> "current"
      [] attr.unit = "%"   -> "battery"
      [] OTHER             -> None

unit_of_measurement(attr) == attr.unit

create_sensor_entity_description(attr) ==
    [key |-> attr.name,
     name |-> attr.description,
     native_unit_of_measurement |-> unit_of_measurement(attr),
     device_class |-> sensor_device_class(attr),
     state_class |-> sensor_state_class(attr)]

(***************************************************************************)
(* GrowattClientSensor.__init__                                            *)
(***************************************************************************)
GrowattClientSensorLabelId(name, serial, description, probe) ==
    [probe |-> probe,
     entity_description |-> description,
     unique_id |-> serial \o "_" \o description.name,
     name |-> name \o " " \o description.name,
     device |-> [identifiers |-> serial, name |-> name]]

GrowattClientSensor(name, serial, description, probe) ==
    [probe |-> probe,
     entity_description |-> description,
     unique_id |-> serial \o "_" \o description.key,
     name |-> name \o " " \o description.name,
     device |-> [identifiers |-> serial, name |-> name]]

(***************************************************************************)
(* GrowattClientDataProbe: the readings are mappings from attribute name   *)
(* to value.  The initial [] and an empty dict are both the empty mapping: *)
(* `in` and bool() do not tell them apart.                                 *)
(***************************************************************************)
EmptyData == <<>>

get_data(d, name) == IF name \notin DOMAIN d THEN None ELSE d[name]

has_data_not_none(d) == TRUE

has_data(d) == DOMAIN d # {}

(***************************************************************************)
(* Throttle(SCAN_INTERVAL): the wrapped coroutine is called when it was    *)
(* never called before or more than the interval has passed since the      *)
(* stamp; the stamp is taken when the coroutine is created.                *)
(***************************************************************************)
ThrottleAbsent(stamp, t) == TRUE

ThrottleOpen(stamp, t) == stamp = <<>> \/ t - stamp[1] > SCAN_INTERVAL

(***************************************************************************)
(* Inputs.                                                                 *)
(***************************************************************************)
A_power == [name |-> "power_now", description |-> "Power", unit |-> "kW"]
A_today == [name |-> "energy_today", description |-> "Energy", unit |-> "kWh"]
A_life == [name |-> "energy_lifetime", description |-> "Energy", unit |-> "kWh"]

ScenarioCatalog == <<A_power, A_today, A_life>>

Min(a, b) == IF a < b THEN a ELSE b

RuntimeCatalogs ==
    {SubSeq(ScenarioCatalog, 1, n) : n \in 0..Min(MaxSensors, Len(ScenarioCatalog))}

Keys == {"power_now", "energy_today"}
Values == {"2.5", "10.0"}

Readings == UNION {[K -> Values] : K \in SUBSET Keys}

Entities == 1..Len(entities)

(***************************************************************************)
(* State after the host has decided to load the platform.                  *)
(***************************************************************************)
InitCommon ==
    /\ pc = "start"
    /\ hwInfo = "unknown"
    /\ probes = 0
    /\ entities = <<>>
    /\ data = EmptyData
    /\ throttle = <<>>
    /\ now = 0
    /\ task = <<>>
    /\ result = <<>>
    /\ callTimes = <<>>
    /\ opener = 0
    /\ winOutcome = "none"
    /\ fetched = FALSE
    /\ lastGood = EmptyData
    /\ everSeen = {}

Init ==
    /\ InitCommon
    /\ cfgName \in {"", "Roof"}
    /\ hwSerial = "SN123"
    /\ catalog \in RuntimeCatalogs

(***************************************************************************)
(* async_setup_platform: the client is built and update_hardware_info() is *)
(* awaited; when it returns, the rest of the routine runs without          *)
(* suspending; when it raises, the exception leaves the routine.           *)
(***************************************************************************)
SetupCall ==
    /\ pc = "start"
    /\ pc' = "await_hw"
    /\ UNCHANGED <<hwInfo, cfgName, hwSerial, catalog, probes, entities, data,
                   throttle, now, task, result, callTimes, opener, winOutcome,
                   fetched, lastGood, everSeen>>

UpdateHardwareInfoOk ==
    /\ pc = "await_hw"
    /\ hwInfo' = "ok"
    /\ LET serial_number == hwSerial
           probe == probes + 1
           name == IF cfgName = "" THEN serial_number ELSE cfgName
           sensors == [i \in 1..Len(catalog) |->
                          GrowattClientSensor(name, serial_number,
                              create_sensor_entity_description(catalog[i]), probe)]
       IN /\ probes' = probe
          /\ entities' = sensors
          /\ task' = [i \in 1..Len(sensors) |-> "idle"]
          /\ result' = [i \in 1..Len(sensors) |-> "none"]
    /\ pc' = "loaded"
    /\ UNCHANGED <<cfgName, hwSerial, catalog, data, throttle, now, callTimes,
                   opener, winOutcome, fetched, lastGood, everSeen>>

UpdateHardwareInfoRegisters ==
    /\ pc = "await_hw"
    /\ hwInfo' = "error"
    /\ LET sensors == [i \in 1..Len(catalog) |->
                          GrowattClientSensor(cfgName, "",
                              create_sensor_entity_description(catalog[i]), probes + 1)]
       IN /\ probes' = probes + 1
          /\ entities' = sensors
          /\ task' = [i \in 1..Len(sensors) |-> "idle"]
          /\ result' = [i \in 1..Len(sensors) |-> "none"]
    /\ pc' = "loaded"
    /\ UNCHANGED <<cfgName, hwSerial, catalog, data, throttle, now, callTimes,
                   opener, winOutcome, fetched, lastGood, everSeen>>

UpdateHardwareInfoFails ==
    /\ pc = "await_hw"
    /\ hwInfo' = "error"
    /\ pc' = "failed"
    /\ UNCHANGED <<cfgName, hwSerial, catalog, probes, entities, data, throttle, now,
                   task, result, callTimes, opener, winOutcome, fetched, lastGood,
                   everSeen>>

(***************************************************************************)
(* GrowattClientSensor.async_update -> GrowattClientDataProbe.update.      *)
(* Refresh is the part up to the suspension inside client.async_update(),  *)
(* or the whole call when the throttle skips it; FetchOk and FetchFails    *)
(* are the resumption.  Nothing catches what client.async_update() raises. *)
(***************************************************************************)
RefreshClearsFirst(i) ==
    /\ pc = "loaded"
    /\ task[i] = "idle"
    /\ data' = EmptyData
    /\ IF ThrottleOpen(throttle, now)
       THEN /\ throttle' = <<now>>
            /\ task' = [task EXCEPT ![i] = "awaiting"]
            /\ callTimes' = Append(callTimes, now)
            /\ opener' = i
            /\ winOutcome' = "pending"
            /\ UNCHANGED result
       ELSE /\ result' = [result EXCEPT ![i] = "throttled"]
            /\ UNCHANGED <<throttle, task, callTimes, opener, winOutcome>>
    /\ UNCHANGED <<pc, hwInfo, cfgName, hwSerial, catalog, probes, entities, now,
                   fetched, lastGood, everSeen>>

Refresh(i) ==
    /\ pc = "loaded"
    /\ task[i] = "idle"
    /\ IF ThrottleOpen(throttle, now)
       THEN /\ throttle' = <<now>>
            /\ task' = [task EXCEPT ![i] = "awaiting"]
            /\ callTimes' = Append(callTimes, now)
            /\ opener' = i
            /\ winOutcome' = "pending"
            /\ UNCHANGED result
       ELSE /\ result' = [result EXCEPT ![i] = "throttled"]
            /\ UNCHANGED <<throttle, task, callTimes, opener, winOutcome>>
    /\ UNCHANGED <<pc, hwInfo, cfgName, hwSerial, catalog, probes, entities, data,
                   now, fetched, lastGood, everSeen>>

Merge(r, d) == [k \in DOMAIN r \cup DOMAIN d |-> IF k \in DOMAIN r THEN r[k] ELSE d[k]]

FetchOkMerges(i, r) ==
    /\ task[i] = "awaiting"
    /\ data' = Merge(r, data)
    /\ task' = [task EXCEPT ![i] = "idle"]
    /\ result' = [result EXCEPT ![i] = "returned"]
    /\ winOutcome' = IF opener = i THEN "ok" ELSE winOutcome
    /\ fetched' = TRUE
    /\ lastGood' = r
    /\ everSeen' = everSeen \cup DOMAIN r
    /\ UNCHANGED <<pc, hwInfo, cfgName, hwSerial, catalog, probes, entities, throttle,
                   now, callTimes, opener>>

FetchOk(i, r) ==
    /\ task[i] = "awaiting"
    /\ data' = r
    /\ task' = [task EXCEPT ![i] = "idle"]
    /\ result' = [result EXCEPT ![i] = "returned"]
    /\ winOutcome' = IF opener = i THEN "ok" ELSE winOutcome
    /\ fetched' = TRUE
    /\ lastGood' = r
    /\ everSeen' = everSeen \cup DOMAIN r
    /\ UNCHANGED <<pc, hwInfo, cfgName, hwSerial, catalog, probes, entities, throttle,
                   now, callTimes, opener>>

FetchFailsClears(i) ==
    /\ task[i] = "awaiting"
    /\ task' = [task EXCEPT ![i] = "idle"]
    /\ result' = [result EXCEPT ![i] = "raised"]
    /\ winOutcome' = IF opener = i THEN "failed" ELSE winOutcome
    /\ data' = EmptyData
    /\ UNCHANGED <<pc, hwInfo, cfgName, hwSerial, catalog, probes, entities, throttle,
                   now, callTimes, opener, fetched, lastGood, everSeen>>

FetchFailsReopens(i) ==
    /\ task[i] = "awaiting"
    /\ task' = [task EXCEPT ![i] = "idle"]
    /\ result' = [result EXCEPT ![i] = "raised"]
    /\ winOutcome' = IF opener = i THEN "failed" ELSE winOutcome
    /\ throttle' = <<>>
    /\ UNCHANGED <<pc, hwInfo, cfgName, hwSerial, catalog, probes, entities, data,
                   now, callTimes, opener, fetched, lastGood, everSeen>>

FetchFails(i) ==
    /\ task[i] = "awaiting"
    /\ task' = [task EXCEPT ![i] = "idle"]
    /\ result' = [result EXCEPT ![i] = "raised"]
    /\ winOutcome' = IF opener = i THEN "failed" ELSE winOutcome
    /\ UNCHANGED <<pc, hwInfo, cfgName, hwSerial, catalog, probes, entities, data,
                   throttle, now, callTimes, opener, fetched, lastGood, everSeen>>

Tick ==
    /\ now < MaxTime
    /\ now' = now + 1
    /\ UNCHANGED <<pc, hwInfo, cfgName, hwSerial, catalog, probes, entities, data,
                   throttle, task, result, callTimes, opener, winOutcome, fetched,
                   lastGood, everSeen>>

Next ==
    \/ SetupCall
    \/ UpdateHardwareInfoOk
    \/ UpdateHardwareInfoFails
    \/ \E i \in Entities : Refresh(i)
    \/ \E i \in Entities : \E r \in Readings : FetchOk(i, r)
    \/ \E i \in Entities : FetchFails(i)
    \/ Tick

Spec == Init /\ [][Next]_vars

(***************************************************************************)
(* GrowattClientSensor.available and native_value of the i-th entity.      *)
(***************************************************************************)
available(i) == has_data(data)

native_value(i) == get_data(data, entities[i].entity_description.key)

(***************************************************************************)
(* Setup alone, over a wider set of catalogs, serial numbers and names.    *)
(***************************************************************************)
SetupNames == {"power_now", "energy_today", "energy_lifetime", "today",
               "today_max", "day"}
SetupLabels == {"Power", "Energy"}
SetupUnits == {"kWh", "XYZ"}

SetupAttrs == [name : SetupNames, description : SetupLabels, unit : SetupUnits]

SetupCatalogs == UNION {[1..n -> SetupAttrs] : n \in 0..MaxCatalog}

InitSetup ==
    /\ InitCommon
    /\ cfgName \in {"", "Roof"}
    /\ hwSerial \in {"SN123", "A_1"}
    /\ catalog \in SetupCatalogs

NextSetup ==
    \/ SetupCall
    \/ UpdateHardwareInfoOk
    \/ UpdateHardwareInfoFails

SpecSetup == InitSetup /\ [][NextSetup]_vars

(***************************************************************************)
(* Steps of one entity's async_update(), read off a pair of states.        *)
(***************************************************************************)
Started(i) == task[i] = "idle" /\ task'[i] = "awaiting"
Skipped(i) == result[i] # "throttled" /\ result'[i] = "throttled"
Raised(i) == task[i] = "awaiting" /\ task'[i] = "idle" /\ result'[i] = "raised"
Returned(i) == task[i] = "awaiting" /\ task'[i] = "idle" /\ result'[i] = "returned"

Lookup(r, k) == IF k \in DOMAIN r THEN r[k] ELSE None

DistinctNames(c) == \A i, j \in 1..Len(c) : i # j => c[i].name # c[j].name

(* C1: client.async_update() is never called less than the 30-second      *)
(* interval after the previous invocation that called it, so the refreshes *)
(* made within one interval amount to one client call.                     *)
C1_OneCallPerInterval ==
    \A j \in 2..Len(callTimes) : callTimes[j] - callTimes[j - 1] >= SCAN_INTERVAL

C1_Witness ==
    /\ Len(callTimes) = 1
    /\ now - callTimes[1] < SCAN_INTERVAL
    /\ \E i \in Entities : result[i] = "throttled"

(* C2: a refresh whose client update fails leaves get_data unchanged for   *)
(* every attribute name, and at None for every name when no fetch has      *)
(* succeeded before.                                                       *)
C2_FailureKeepsReading ==
    [][\A i \in Entities : Raised(i) =>
          /\ \A k \in Keys \cup SetupNames : get_data(data', k) = get_data(data, k)
          /\ ~fetched => \A k \in Keys \cup SetupNames : get_data(data', k) = None]_vars

C2_Witness ==
    /\ Len(entities) = 1
    /\ result[1] = "raised"
    /\ has_data(data)

(* C3: no async_update() ever ends by raising the client's error to the    *)
(* host.                                                                   *)
C3_NoPropagation == \A i \in Entities : result[i] # "raised"

(* C4 as stated: has_data is true exactly when some fetch has succeeded.   *)
C4_Original ==
    /\ has_data(data) = fetched
    /\ \A i \in Entities : available(i) = fetched

(* C4: has_data (and every sensor's available) is false before the first   *)
(* successful fetch, and afterwards true exactly when the mapping returned *)
(* by the latest successful fetch is not empty.                            *)
C4_HasDataIffNonEmpty ==
    /\ has_data(data) = (fetched /\ lastGood # EmptyData)
    /\ \A i \in Entities : available(i) = (fetched /\ lastGood # EmptyData)

C4_Witness ==
    /\ fetched
    /\ everSeen # {}
    /\ lastGood = EmptyData
    /\ \E i \in Entities : ~available(i)

(* C5: every sensor's native_value is the value of its attribute in the    *)
(* mapping returned by the latest successful fetch, None when that mapping *)
(* lacks the attribute or no fetch has succeeded.                          *)
C5_ValueIsLatestReading ==
    \A i \in Entities :
        native_value(i) = Lookup(lastGood, entities[i].entity_description.key)

C5_Witness ==
    \E i \in Entities :
        /\ fetched
        /\ entities[i].entity_description.key \in everSeen \ DOMAIN lastGood
        /\ native_value(i) = None
        /\ lastGood # EmptyData

(* C6: after a successful setup over a catalog with distinct names there   *)
(* is one probe and one sensor per catalog entry, every sensor is bound to *)
(* that probe, and the unique ids are serial_name and pairwise distinct.   *)
C6_OneSensorPerAttribute ==
    (pc = "loaded" /\ DistinctNames(catalog)) =>
        /\ Len(entities) = Len(catalog)
        /\ probes = 1
        /\ \A i \in Entities :
              /\ entities[i].probe = 1
              /\ entities[i].unique_id = hwSerial \o "_" \o catalog[i].name
        /\ Cardinality({entities[i].unique_id : i \in Entities}) = Len(catalog)

C6_Witness ==
    /\ pc = "loaded"
    /\ Len(catalog) >= 2
    /\ DistinctNames(catalog)
    /\ catalog[1].description = catalog[2].description
    /\ Len(entities) = Len(catalog)

(* C7: when update_hardware_info() fails, setup ends in failure with no    *)
(* probe, no sensor registered and no client update call, then and later.  *)
C7_IdentityFailureAborts ==
    hwInfo = "error" =>
        /\ pc = "failed"
        /\ probes = 0
        /\ entities = <<>>
        /\ callTimes = <<>>

C7_Witness ==
    /\ hwInfo = "error"
    /\ pc = "failed"
    /\ catalog # <<>>
    /\ now > 0

(* C8 as stated: names ending in lifetime or today are classified          *)
(* total-increasing, every other name is classified measurement.           *)
CumulativeNames == {"energy_today", "energy_lifetime", "today"}

C8_Original ==
    \A i \in Entities :
        entities[i].entity_description.state_class =
            IF entities[i].entity_description.key \in CumulativeNames
            THEN TOTAL_INCREASING
            ELSE MEASUREMENT

(* C8: names ending in lifetime or today are classified total-increasing,  *)
(* every other name gets no state class (None).                            *)
C8_StateClassBySuffix ==
    \A i \in Entities :
        entities[i].entity_description.state_class =
            IF entities[i].entity_description.key \in CumulativeNames
            THEN TOTAL_INCREASING
            ELSE None

C8_Witness ==
    /\ pc = "loaded"
    /\ \E i, j \in Entities :
          /\ entities[i].entity_description.key = "energy_today"
          /\ entities[i].entity_description.state_class = TOTAL_INCREASING
          /\ entities[j].entity_description.key = "power_now"
          /\ entities[j].entity_description.state_class = None

(* C9: probe.data changes only in the step in which some fetch returns,    *)
(* and then to the whole mapping returned; a refresh skipped by the        *)
(* throttle changes nothing of the probe; while a fetch is suspended the   *)
(* cache is the whole mapping of the latest successful fetch.              *)
C9_CacheChangesOnlyOnCompletion ==
    [][/\ data' # data =>
            \E i \in Entities : Returned(i) /\ data' = lastGood' /\ data' \in Readings
       /\ \A i \in Entities :
            Skipped(i) => UNCHANGED <<data, throttle, callTimes, task>>
       /\ (\E i \in Entities : task[i] = "awaiting") =>
            /\ data = lastGood
            /\ \A j \in Entities :
                  /\ native_value(j) =
                        Lookup(lastGood, entities[j].entity_description.key)
                  /\ available(j) = (lastGood # EmptyData)]_vars

C9_Witness ==
    \E i, j \in Entities :
        /\ i # j
        /\ task[i] = "awaiting"
        /\ result[j] = "throttled"
        /\ Len(callTimes) = 2
        /\ has_data(data)

(* C10: a failed fetch leaves the throttle stamp of its invocation in      *)
(* place: while the fetch that set the stamp is known to have failed, no   *)
(* refresh within 30 seconds of the stamp calls the client, and no refresh *)
(* later than that is skipped.                                             *)
C10_FailureKeepsWindow ==
    [][\A i \in Entities :
          /\ Raised(i) => throttle' = throttle /\ throttle # <<>>
          /\ (winOutcome = "failed" /\ throttle # <<>>) =>
                /\ Started(i) => now - throttle[1] > SCAN_INTERVAL
                /\ Skipped(i) => now - throttle[1] <= SCAN_INTERVAL]_vars

C10_Witness ==
    \E i, j \in Entities :
        /\ i # j
        /\ result[i] = "raised"
        /\ result[j] = "throttled"
        /\ task[i] = "awaiting"
        /\ opener = i
        /\ Len(callTimes) = 2

====
